---- MODULE Spec2Model ----
(***************************************************************************)
(* Bit-banged 1-Wire master driver (oneWire.c / oneWire.h): the polled     *)
(* protocol state machine, its tick-based deadlines, the bit/byte assembly *)
(* and the status flags.                                                   *)
(***************************************************************************)
EXTENDS Integers, Sequences, FiniteSets, TLC

(***************************************************************************)
(* Bounds of the model.                                                    *)
(***************************************************************************)
\* How many ticks, over a run, go by although the last poll left the engine
\* something to do (late polls) or nothing is in progress (idle time).
MaxLate == 1
\* How many caller commands (init, write_byte, direct state writes) one run issues.
MaxCmds == 2
\* In how many sample windows of a run the device is sampled low.
MaxLows == 2
\* How many onewire_process calls a run makes on the second instance.
MaxOtherPolls == 6
\* How many ticks before and after the wrap of the tick counter a timed phase
\* is entered, and how many ticks later, at most, it is polled.
MaxWrap == 4
MaxElapsed == 7

(***************************************************************************)
(* Program constants.                                                      *)
(***************************************************************************)
\* Standard-speed delays, oneWire.h:122-131.
WRITE_1_LOW_DELAY == 6
WRITE_1_RELEASE_BUS_DELAY == 64
WRITE_0_LOW_DELAY == 60
WRITE_0_RELEASE_BUS_DELAY == 10
READ_RELEASE_BUS_DELAY == 9
READ_SAMPLE_DELAY == 55
RESET_INIT_DELAY == 0
RESET_DRIVE_BUS_LOW_DELAY == 480
RESET_RELEASE_BUS_DELAY == 70
RESET_SAMPLE_BUS_DELAY == 410

\* OneWireFlags, oneWire.h:207-213: the bit numbers inside flag_reg.
FLAG_ERROR == 0
FLAG_PRESENCE_DETECTED == 1
FLAG_BYTE_RECEIVED == 2
FLAG_BYTE_SEND == 3
FLAG_IS_SLAVE == 4

\* GPIO_PinState as used at oneWire.c:103,123,127,243,308.
GPIO_PIN_RESET == 0
GPIO_PIN_SET == 1

\* TickType_t (oneWire.h:228) is an unsigned tick counter whose sums are
\* computed modulo its range; the model gives the counter 16 bits.
TickModulus == 65536

\* The tick rates (configTICK_RATE_HZ) of the builds the model covers; the
\* value is set outside the driver's two files.  At none of them is
\* pdMS_TO_TICKS the identity.
TickRates == {250, 500}

\* OneWireState, oneWire.h:172-205.  oneWire.c names the master-read states
\* ONEWIRE_STATE_READ_*.
ResetStates == {"RESET_INIT", "RESET_DRIVE_BUS_LOW", "RESET_RELEASE_BUS",
                "RESET_SAMPLE_BUS", "RESET_DONE"}
WriteHighStates == {"WRITE_HIGH_INIT", "WRITE_HIGH_DRIVE_BUS_LOW",
                    "WRITE_HIGH_RELEASE_BUS", "WRITE_HIGH_DONE"}
WriteLowStates == {"WRITE_LOW_INIT", "WRITE_LOW_DRIVE_BUS_LOW",
                   "WRITE_LOW_RELEASE_BUS", "WRITE_LOW_DONE"}
ReadStates == {"READ_INIT", "READ_DRIVE_BUS_LOW", "READ_RELEASE_BUS",
               "READ_SAMPLE_BUS", "READ_DONE"}
SlaveReadStates == {"SLAVE_READ_INIT", "SLAVE_READ_MONITOR_BUS",
                    "SLAVE_READ_RELEASE_BUS", "SLAVE_READ_SAMPLE_BUS",
                    "SLAVE_READ_DONE"}
OneWireState == {"IDLE", "ERROR"} \cup ResetStates \cup WriteHighStates
                \cup WriteLowStates \cup ReadStates \cup SlaveReadStates

\* The states onewire_process has a case label for (oneWire.c:223-317).
HandledStates == (ResetStates \ {"RESET_DONE"}) \cup WriteHighStates
                 \cup WriteLowStates \cup ReadStates
\* Every other state value ends in the default label (oneWire.c:330).
UnhandledStates == OneWireState \ HandledStates

(***************************************************************************)
(* Helpers of oneWire.c.                                                   *)
(***************************************************************************)
\* (x >> i) & 1 on an unsigned byte.
BitAt(x, i) == (x \div (2 ^ i)) % 2

\* pdMS_TO_TICKS(x): (x * configTICK_RATE_HZ) / 1000, as a TickType_t.
pdMS_TO_TICKS(x, rate) == ((x * rate) \div 1000) % TickModulus

\* oneWire.c:134-136.  The callers pass pdMS_TO_TICKS(delay) and the function
\* converts its argument once more.
is_time_expired(ow, expatration_time, rate, ticks) ==
    (ow.timestamp + pdMS_TO_TICKS(expatration_time, rate)) % TickModulus <= ticks

\* oneWire.c:138-141.
set_state(ow, new_state, ticks) ==
    [ow EXCEPT !.state = new_state, !.timestamp = ticks]

\* oneWire.c:154-158.
set_flag(ow, flag_bit) ==
    IF flag_bit < 8 /\ BitAt(ow.flag_reg, flag_bit) = 0
    THEN [ow EXCEPT !.flag_reg = @ + 2 ^ flag_bit]
    ELSE ow

\* oneWire.c:160-164.
reset_flag(ow, flag_bit) ==
    IF flag_bit < 8 /\ BitAt(ow.flag_reg, flag_bit) = 1
    THEN [ow EXCEPT !.flag_reg = @ - 2 ^ flag_bit]
    ELSE ow

\* oneWire.c:166-171.
get_flag(ow, flag_bit) ==
    IF flag_bit < 8 THEN BitAt(ow.flag_reg, flag_bit) ELSE 0

\* store_read_bit without its clearing branch.
store_read_bit_set_only(ow, value) ==
    IF value # 0
    THEN [ow EXCEPT !.rx_byte =
             IF BitAt(@, ow.bit_index) = 1 THEN @ ELSE @ + 2 ^ ow.bit_index]
    ELSE ow

\* oneWire.c:174-180.
store_read_bit(ow, value) ==
    IF value # 0
    THEN [ow EXCEPT !.rx_byte =
             IF BitAt(@, ow.bit_index) = 1 THEN @ ELSE @ + 2 ^ ow.bit_index]
    ELSE [ow EXCEPT !.rx_byte =
             IF BitAt(@, ow.bit_index) = 1 THEN @ - 2 ^ ow.bit_index ELSE @]

\* set_write_init_state with the two families exchanged.
set_write_init_state_swapped(ow, bit, ticks) ==
    [ow EXCEPT !.timestamp = ticks,
               !.state = IF bit # 0 THEN "WRITE_LOW_INIT" ELSE "WRITE_HIGH_INIT"]

\* oneWire.c:182-190.
set_write_init_state(ow, bit, ticks) ==
    [ow EXCEPT !.timestamp = ticks,
               !.state = IF bit # 0 THEN "WRITE_HIGH_INIT" ELSE "WRITE_LOW_INIT"]

\* handle_write_bit_done_state that leaves rx_byte as it is.
handle_write_bit_done_state_keep_rx(ow, ticks) ==
    LET ow1 == [ow EXCEPT !.bit_index = (@ + 1) % 256]
    IN  IF ow1.bit_index >= 8
        THEN set_flag([set_state(ow1, "IDLE", ticks) EXCEPT !.bit_index = 0],
                      FLAG_BYTE_SEND)
        ELSE set_write_init_state(ow1, BitAt(ow1.tx_byte, ow1.bit_index), ticks)

\* handle_write_bit_done_state that ends the byte in ERROR.
handle_write_bit_done_state_to_error(ow, ticks) ==
    LET ow1 == [ow EXCEPT !.bit_index = (@ + 1) % 256]
    IN  IF ow1.bit_index >= 8
        THEN [set_state(ow1, "ERROR", ticks) EXCEPT !.bit_index = 0, !.rx_byte = 0]
        ELSE set_write_init_state(ow1, BitAt(ow1.tx_byte, ow1.bit_index), ticks)

\* handle_write_bit_done_state that does not clear bit_index on completion.
handle_write_bit_done_state_keep_index(ow, ticks) ==
    LET ow1 == [ow EXCEPT !.bit_index = (@ + 1) % 256]
    IN  IF ow1.bit_index >= 8
        THEN set_flag([set_state(ow1, "IDLE", ticks) EXCEPT !.rx_byte = 0],
                      FLAG_BYTE_SEND)
        ELSE set_write_init_state(ow1, BitAt(ow1.tx_byte, ow1.bit_index), ticks)

\* oneWire.c:191-204.
handle_write_bit_done_state(ow, ticks) ==
    LET ow1 == [ow EXCEPT !.bit_index = (@ + 1) % 256]
    IN  IF ow1.bit_index >= 8
        THEN set_flag([set_state(ow1, "IDLE", ticks)
                          EXCEPT !.bit_index = 0, !.rx_byte = 0],
                      FLAG_BYTE_SEND)
        ELSE set_write_init_state(ow1, BitAt(ow1.tx_byte, ow1.bit_index), ticks)

\* onewire_init that records a slave operating mode in the flag register.
onewire_init_value_slave ==
    [state |-> "IDLE", rx_byte |-> 0, tx_byte |-> 0, bit_index |-> 0,
     timestamp |-> 0, flag_reg |-> 2 ^ FLAG_IS_SLAVE]

\* oneWire.c:207-218: the driver structure after onewire_init.
onewire_init_value ==
    [state |-> "IDLE", rx_byte |-> 0, tx_byte |-> 0, bit_index |-> 0,
     timestamp |-> 0, flag_reg |-> 0]

\* onewire_write_byte that clears byte-sent when it starts a new byte.
onewire_write_byte_clears_sent(ow, data, ticks) ==
    set_write_init_state(reset_flag([ow EXCEPT !.tx_byte = data, !.bit_index = 0],
                                    FLAG_BYTE_SEND),
                         BitAt(data, 0), ticks)

\* oneWire.c:338-342.
onewire_write_byte(ow, data, ticks) ==
    set_write_init_state([ow EXCEPT !.tx_byte = data, !.bit_index = 0],
                         BitAt(data, 0), ticks)

(***************************************************************************)
(* onewire_process, oneWire.c:220-336.  The result holds the driver        *)
(* structure, the file-scope sampled_bus_bit and the bus primitives the    *)
(* call executed, in order: "low" (pull_low), "high" (pull_high),          *)
(* "sample" (read_pin).                                                    *)
(***************************************************************************)
Res(ow, sbb, acts) == [ow |-> ow, sampled |-> sbb, acts |-> acts]

\* case WRITE_HIGH_INIT without its pull_low.
case_write_high_init_no_pull(ow, sbb, ticks, acts) ==
    Res(set_state(ow, "WRITE_HIGH_DRIVE_BUS_LOW", ticks), sbb, acts)

\* case ONEWIRE_STATE_WRITE_HIGH_INIT, oneWire.c:255-258.
case_write_high_init(ow, sbb, ticks, acts) ==
    Res(set_state(ow, "WRITE_HIGH_DRIVE_BUS_LOW", ticks), sbb, acts \o <<"low">>)

\* A timed phase that advances when its delay has expired.
timed_phase(ow, sbb, rate, ticks, delay, next, acts) ==
    IF is_time_expired(ow, pdMS_TO_TICKS(delay, rate), rate, ticks)
    THEN Res(set_state(ow, next, ticks), sbb, acts)
    ELSE Res(ow, sbb, <<>>)

\* case ONEWIRE_STATE_RESET_SAMPLE_BUS, oneWire.c:241-253.  The branch that
\* samples has no break: control runs on into the WRITE_HIGH_INIT label.
case_reset_sample_bus(ow, sbb, rate, ticks, pin) ==
    IF ~is_time_expired(ow, pdMS_TO_TICKS(RESET_SAMPLE_BUS_DELAY, rate), rate, ticks)
    THEN LET ow1 == IF pin = GPIO_PIN_RESET
                    THEN set_flag(ow, FLAG_PRESENCE_DETECTED) ELSE ow
         IN  case_write_high_init(ow1, sbb, ticks, <<"sample">>)
    ELSE LET ow1 == set_state(ow, "RESET_DONE", ticks)
         IN  Res(IF get_flag(ow1, FLAG_PRESENCE_DETECTED) # 0
                 THEN set_flag(ow1, FLAG_ERROR) ELSE ow1,
                 sbb, <<>>)

\* case ONEWIRE_STATE_READ_SAMPLE_BUS, oneWire.c:306-316.
case_read_sample_bus(ow, sbb, rate, ticks, pin) ==
    IF ~is_time_expired(ow, pdMS_TO_TICKS(READ_SAMPLE_DELAY, rate), rate, ticks)
    THEN Res(ow, IF pin = GPIO_PIN_RESET THEN GPIO_PIN_RESET ELSE sbb, <<"sample">>)
    ELSE Res(set_state(store_read_bit(ow, sbb), "READ_DONE", ticks), sbb, <<>>)

\* case ONEWIRE_STATE_READ_DONE, oneWire.c:317-329.
case_read_done(ow, ticks) ==
    LET ow1 == [ow EXCEPT !.bit_index = (@ + 1) % 256]
    IN  IF ow1.bit_index >= 8
        THEN Res(set_state([set_flag(ow1, FLAG_BYTE_RECEIVED) EXCEPT !.bit_index = 0],
                           "IDLE", ticks),
                 GPIO_PIN_SET, <<>>)
        ELSE Res(set_state(ow1, "READ_INIT", ticks), GPIO_PIN_SET, <<>>)

\* The default label without its set_flag.
case_default_no_flag(ow, sbb, ticks) ==
    Res(set_state(ow, "ERROR", ticks), sbb, <<>>)

\* default, oneWire.c:330-332.
case_default(ow, sbb, ticks) ==
    Res(set_flag(set_state(ow, "ERROR", ticks), FLAG_ERROR), sbb, <<>>)

onewire_process(ow, sbb, rate, ticks, pin) ==
    CASE ow.state = "RESET_INIT" ->
           timed_phase(ow, sbb, rate, ticks, RESET_INIT_DELAY,
                       "RESET_DRIVE_BUS_LOW", <<"low">>)
      [] ow.state = "RESET_DRIVE_BUS_LOW" ->
           timed_phase(ow, sbb, rate, ticks, RESET_DRIVE_BUS_LOW_DELAY,
                       "RESET_RELEASE_BUS", <<"high">>)
      [] ow.state = "RESET_RELEASE_BUS" ->
           LET r == timed_phase(ow, sbb, rate, ticks, RESET_RELEASE_BUS_DELAY,
                                "RESET_SAMPLE_BUS", <<>>)
           IN  IF r.ow.state = "RESET_SAMPLE_BUS"
               THEN Res(reset_flag(r.ow, FLAG_PRESENCE_DETECTED), sbb, <<>>)
               ELSE r
      [] ow.state = "RESET_SAMPLE_BUS" ->
           case_reset_sample_bus(ow, sbb, rate, ticks, pin)
      [] ow.state = "WRITE_HIGH_INIT" ->
           case_write_high_init(ow, sbb, ticks, <<>>)
      [] ow.state = "WRITE_HIGH_DRIVE_BUS_LOW" ->
           timed_phase(ow, sbb, rate, ticks, WRITE_1_LOW_DELAY,
                       "WRITE_HIGH_RELEASE_BUS", <<"high">>)
      [] ow.state = "WRITE_HIGH_RELEASE_BUS" ->
           timed_phase(ow, sbb, rate, ticks, WRITE_1_RELEASE_BUS_DELAY,
                       "WRITE_HIGH_DONE", <<>>)
      [] ow.state = "WRITE_LOW_INIT" ->
           Res(set_state(ow, "WRITE_LOW_DRIVE_BUS_LOW", ticks), sbb, <<"low">>)
      [] ow.state = "WRITE_LOW_DRIVE_BUS_LOW" ->
           timed_phase(ow, sbb, rate, ticks, WRITE_0_LOW_DELAY,
                       "WRITE_LOW_RELEASE_BUS", <<"high">>)
      [] ow.state = "WRITE_LOW_RELEASE_BUS" ->
           timed_phase(ow, sbb, rate, ticks, WRITE_0_RELEASE_BUS_DELAY,
                       "WRITE_LOW_DONE", <<>>)
      [] ow.state \in {"WRITE_HIGH_DONE", "WRITE_LOW_DONE"} ->
           Res(handle_write_bit_done_state(ow, ticks), sbb, <<>>)
      [] ow.state = "READ_INIT" ->
           Res(set_state(ow, "READ_DRIVE_BUS_LOW", ticks), sbb, <<"low">>)
      [] ow.state = "READ_DRIVE_BUS_LOW" ->
           timed_phase(ow, sbb, rate, ticks, WRITE_1_LOW_DELAY,
                       "READ_RELEASE_BUS", <<"high">>)
      [] ow.state = "READ_RELEASE_BUS" ->
           timed_phase(ow, sbb, rate, ticks, READ_RELEASE_BUS_DELAY,
                       "READ_SAMPLE_BUS", <<>>)
      [] ow.state = "READ_SAMPLE_BUS" ->
           case_read_sample_bus(ow, sbb, rate, ticks, pin)
      [] ow.state = "READ_DONE" ->
           case_read_done(ow, ticks)
      [] OTHER ->
           case_default(ow, sbb, ticks)

(***************************************************************************)
(* State.                                                                  *)
(***************************************************************************)
VARIABLES
    ow,               \* the OneWireDriver structure (oneWire.h:221-230)
    sampled_bus_bit,  \* the file-scope scratch bit (oneWire.c:103)
    tick_rate,        \* configTICK_RATE_HZ of the build
    now,              \* xTaskGetTickCount()
    bus,              \* the level the master last wrote to the pin
    call,             \* the last operation called on the engine
    pre,              \* the driver structure as that call found it
    pre_wait,         \* that call found a timed state whose delay had not expired
    acts,             \* the bus primitives that call executed, in order
    polled,           \* the last poll of the current tick found nothing to do
    late,             \* ticks gone by without such a poll
    lows,             \* sample windows in which a low level was sampled
    cmds,             \* caller commands issued so far
    op,               \* the operation the caller started last
    pulse,            \* the master's last bus edge, as a bus observer sees it
    win_low,          \* a low level was sampled in the current sample window
    log,              \* the slots completed since the last command
    other,            \* a second engine instance, on a bus line of its own
    twin              \* this engine in a second history: never used before the
                      \* last onewire_init, then given the same calls, clock
                      \* values and pin samples

vars == <<ow, sampled_bus_bit, tick_rate, now, bus, call, pre, pre_wait, acts,
          polled, late, lows, cmds, op, pulse, win_low, log, other, twin>>

\* The delay, in the units the header gives, that each timed state waits for.
StateDelay(s) ==
    CASE s = "RESET_INIT" -> RESET_INIT_DELAY
      [] s = "RESET_DRIVE_BUS_LOW" -> RESET_DRIVE_BUS_LOW_DELAY
      [] s = "RESET_RELEASE_BUS" -> RESET_RELEASE_BUS_DELAY
      [] s = "RESET_SAMPLE_BUS" -> RESET_SAMPLE_BUS_DELAY
      [] s = "WRITE_HIGH_DRIVE_BUS_LOW" -> WRITE_1_LOW_DELAY
      [] s = "WRITE_HIGH_RELEASE_BUS" -> WRITE_1_RELEASE_BUS_DELAY
      [] s = "WRITE_LOW_DRIVE_BUS_LOW" -> WRITE_0_LOW_DELAY
      [] s = "WRITE_LOW_RELEASE_BUS" -> WRITE_0_RELEASE_BUS_DELAY
      [] s = "READ_DRIVE_BUS_LOW" -> WRITE_1_LOW_DELAY
      [] s = "READ_RELEASE_BUS" -> READ_RELEASE_BUS_DELAY
      [] s = "READ_SAMPLE_BUS" -> READ_SAMPLE_DELAY
      [] OTHER -> 0

TimedStates == {"RESET_INIT", "RESET_DRIVE_BUS_LOW", "RESET_RELEASE_BUS",
                "RESET_SAMPLE_BUS", "WRITE_HIGH_DRIVE_BUS_LOW",
                "WRITE_HIGH_RELEASE_BUS", "WRITE_LOW_DRIVE_BUS_LOW",
                "WRITE_LOW_RELEASE_BUS", "READ_DRIVE_BUS_LOW",
                "READ_RELEASE_BUS", "READ_SAMPLE_BUS"}

\* The delay of state s in ticks, converted as the code converts it.
DelayTicks(s, rate) == pdMS_TO_TICKS(pdMS_TO_TICKS(StateDelay(s), rate), rate)

\* The engine is in a timed state and the code finds its delay unexpired.
Waiting(o, rate, ticks) ==
    /\ o.state \in TimedStates
    /\ ~is_time_expired(o, pdMS_TO_TICKS(StateDelay(o.state), rate), rate, ticks)

\* Ticks from tick a to tick b of the free-running counter.
TicksSince(a, b) == (b - a) % TickModulus

\* read_pin (oneWire.c:130-132) on an open-drain line: low when the master
\* holds it low, else what the device puts on it.
read_pin(level, dev) == IF level = GPIO_PIN_RESET THEN GPIO_PIN_RESET ELSE dev

\* The level on the pin after a call that executed the primitives acts.
BusAfter(level, a) ==
    IF \E i \in 1..Len(a) : a[i] \in {"low", "high"}
    THEN LET last == CHOOSE i \in 1..Len(a) :
                        /\ a[i] \in {"low", "high"}
                        /\ \A j \in (i+1)..Len(a) : a[j] \notin {"low", "high"}
         IN  IF a[last] = "low" THEN GPIO_PIN_RESET ELSE GPIO_PIN_SET
    ELSE level

Drives(a) == \E i \in 1..Len(a) : a[i] \in {"low", "high"}
Has(a, x) == \E i \in 1..Len(a) : a[i] = x

NoOp == [kind |-> "none", data |-> 0]

InitRates(rates) ==
    /\ ow = onewire_init_value
    /\ sampled_bus_bit = GPIO_PIN_SET
    /\ tick_rate \in rates
    /\ now = 0
    /\ bus = GPIO_PIN_SET
    /\ call = "init"
    /\ pre = onewire_init_value
    /\ pre_wait = FALSE
    /\ acts = <<>>
    /\ polled = FALSE
    /\ late = 0
    /\ lows = 0
    /\ cmds = 0
    /\ op = NoOp
    /\ pulse = [at |-> 0, a |-> FALSE, c |-> FALSE]
    /\ win_low = FALSE
    /\ log = <<>>
    /\ other = [ow |-> onewire_init_value, bus |-> GPIO_PIN_SET, polls |-> 0]
    /\ twin = [ow |-> ow, sampled |-> GPIO_PIN_SET, same |-> TRUE]

\* What every caller command leaves behind in the bookkeeping; a run issues
\* at most limit commands.
Command(name, newow, newtwin, newop, limit) ==
    /\ cmds < limit
    /\ cmds' = cmds + 1
    /\ ow' = newow
    /\ call' = name
    /\ pre' = ow
    /\ pre_wait' = FALSE
    /\ acts' = <<>>
    /\ polled' = FALSE
    /\ op' = newop
    /\ win_low' = FALSE
    /\ log' = <<>>
    /\ twin' = newtwin
    /\ UNCHANGED <<sampled_bus_bit, tick_rate, now, bus, late, lows, pulse, other>>

\* onewire_init (oneWire.c:207-218) called on a running engine.
Reinit(limit) ==
    Command("init", onewire_init_value,
            [ow |-> onewire_init_value, sampled |-> GPIO_PIN_SET, same |-> TRUE],
            NoOp, limit)

\* onewire_write_byte (oneWire.c:338-342).
WriteByte(data, limit) ==
    Command("write_byte", onewire_write_byte(ow, data, now),
            [twin EXCEPT !.ow = onewire_write_byte(twin.ow, data, now)],
            [kind |-> IF ow.state = "IDLE" THEN "write" ELSE "write_busy",
             data |-> data],
            limit)

\* The driver has no call that starts a reset or a read: the caller stores
\* the first state of the family in the structure's state field.
StartReset(limit) ==
    Command("start_reset", [ow EXCEPT !.state = "RESET_INIT"],
            [twin EXCEPT !.ow.state = "RESET_INIT"],
            [kind |-> "reset", data |-> 0], limit)

\* op.data keeps what rx_byte held when the read began.
StartRead(limit) ==
    Command("start_read", [ow EXCEPT !.state = "READ_INIT"],
            [twin EXCEPT !.ow.state = "READ_INIT"],
            [kind |-> IF ow.bit_index = 0 THEN "read" ELSE "read_mid",
             data |-> ow.rx_byte],
            limit)

\* A state value without a case label stored in the state field.
SupplyState(s, limit) ==
    Command("supply_state", [ow EXCEPT !.state = s],
            [twin EXCEPT !.ow.state = s],
            [kind |-> "supplied", data |-> 0], limit)

\* The write-slot thresholds in ticks.
TA(rate) == DelayTicks("WRITE_HIGH_DRIVE_BUS_LOW", rate)
TB(rate) == DelayTicks("WRITE_HIGH_RELEASE_BUS", rate)
TC(rate) == DelayTicks("WRITE_LOW_DRIVE_BUS_LOW", rate)
TD(rate) == DelayTicks("WRITE_LOW_RELEASE_BUS", rate)

\* One onewire_process call; dev is what the device puts on the line.
Process(dev) ==
    LET line == read_pin(bus, dev)
        r == onewire_process(ow, sampled_bus_bit, tick_rate, now, line)
        sampledLow == Has(r.acts, "sample") /\ line = GPIO_PIN_RESET
        entersWindow == /\ r.ow.state \in {"RESET_SAMPLE_BUS", "READ_SAMPLE_BUS"}
                        /\ ow.state # r.ow.state
        held == TicksSince(pulse.at, now)
        rt == onewire_process(twin.ow, twin.sampled, tick_rate, now, line)
    IN  /\ dev = GPIO_PIN_RESET => (win_low \/ lows < MaxLows)
        /\ twin' = [ow |-> rt.ow, sampled |-> rt.sampled,
                    same |-> twin.same /\ rt.acts = r.acts]
        /\ lows' = IF sampledLow /\ ~win_low THEN lows + 1 ELSE lows
        /\ ow' = r.ow
        /\ sampled_bus_bit' = r.sampled
        /\ call' = "process"
        /\ pre' = ow
        /\ pre_wait' = Waiting(ow, tick_rate, now)
        /\ acts' = r.acts
        /\ bus' = BusAfter(bus, r.acts)
        /\ polled' = (r.ow.state = ow.state)
        /\ win_low' = IF entersWindow THEN FALSE ELSE (win_low \/ sampledLow)
        /\ pulse' = IF Has(r.acts, "high")
                    THEN [at |-> now,
                          a |-> bus = GPIO_PIN_RESET /\ held >= TA(tick_rate),
                          c |-> bus = GPIO_PIN_RESET /\ held >= TC(tick_rate)]
                    ELSE IF Has(r.acts, "low")
                    THEN [at |-> now, a |-> FALSE, c |-> FALSE]
                    ELSE pulse
        /\ log' = IF ow.state \in {"WRITE_HIGH_DONE", "WRITE_LOW_DONE"}
                  THEN Append(log, [kind |-> "w",
                                    one |-> /\ bus = GPIO_PIN_SET
                                            /\ pulse.a
                                            /\ held >= TB(tick_rate),
                                    zero |-> /\ bus = GPIO_PIN_SET
                                             /\ pulse.c
                                             /\ held >= TD(tick_rate)])
                  ELSE IF ow.state = "READ_SAMPLE_BUS" /\ r.ow.state = "READ_DONE"
                  THEN Append(log, [kind |-> "r",
                                    one |-> sampled_bus_bit # 0,
                                    zero |-> win_low])
                  ELSE log
        /\ UNCHANGED <<tick_rate, now, late, cmds, op, other>>

Poll == \E dev \in {GPIO_PIN_RESET, GPIO_PIN_SET} : Process(dev)

\* No operation is in progress.
AtRest == ow.state \in {"IDLE", "ERROR", "RESET_DONE"}

\* The tick interrupt under polling at tick resolution: the task polls the
\* engine until a poll finds nothing to do, then the tick goes by.  Over a run
\* at most MaxLate ticks go by otherwise.
Tick ==
    /\ (polled /\ ~AtRest) \/ late < MaxLate
    /\ now' = (now + 1) % TickModulus
    /\ polled' = FALSE
    /\ late' = IF polled /\ ~AtRest THEN late ELSE late + 1
    /\ UNCHANGED <<ow, sampled_bus_bit, tick_rate, bus, call, pre, pre_wait,
                   acts, lows, cmds, op, pulse, win_low, log, other, twin>>

\* The tick interrupt under any polling pattern: the tick goes by, polled or
\* not, while the engine waits in a timed state.
TickFree ==
    /\ Waiting(ow, tick_rate, now)
    /\ now' = (now + 1) % TickModulus
    /\ polled' = FALSE
    /\ UNCHANGED <<ow, sampled_bus_bit, tick_rate, bus, call, pre, pre_wait,
                   acts, late, lows, cmds, op, pulse, win_low, log, other, twin>>

\* The bytes the callers of the general specification write.
DataBytes == {0, 165, 255}

(***************************************************************************)
(* Spec: an engine whose caller starts operations when none is in progress.*)
(***************************************************************************)
RestReinit == AtRest /\ Reinit(MaxCmds)
RestWriteByte == AtRest /\ \E data \in DataBytes : WriteByte(data, MaxCmds)
RestStartReset == AtRest /\ StartReset(MaxCmds)
RestStartRead == AtRest /\ StartRead(MaxCmds)
RestSupplyState == AtRest /\ \E s \in SlaveReadStates : SupplyState(s, MaxCmds)

Next ==
    \/ Poll
    \/ Tick
    \/ RestReinit
    \/ RestWriteByte
    \/ RestStartReset
    \/ RestStartRead
    \/ RestSupplyState

Init == InitRates({250})

Spec == Init /\ [][Next]_vars

(***************************************************************************)
(* SpecWrite: one byte, of any value, written on an idle engine.           *)
(***************************************************************************)
IdleWriteByte ==
    /\ ow.state = "IDLE"
    /\ \E data \in 0..255 : WriteByte(data, 1)

NextWrite ==
    \/ Poll
    \/ Tick
    \/ IdleWriteByte

\* At 500 Hz every write delay is at least one tick.
InitWrite == InitRates({500})

SpecWrite == InitWrite /\ [][NextWrite]_vars

(***************************************************************************)
(* SpecReset: one reset sequence under any polling pattern.  The task keeps*)
(* polling and the tick counter keeps running.                             *)
(***************************************************************************)
IdleStartReset == ow.state = "IDLE" /\ StartReset(1)

NextReset ==
    \/ Poll
    \/ TickFree
    \/ IdleStartReset

InitReset == InitRates(TickRates)

SpecReset ==
    InitReset /\ [][NextReset]_vars /\ WF_vars(Poll) /\ WF_vars(TickFree)

(***************************************************************************)
(* SpecRead: byte reads, which the caller may abandon by onewire_init.     *)
(***************************************************************************)
AbandonReinit == ~AtRest /\ Reinit(MaxCmds + 1)

RestStartReadAgain == AtRest /\ StartRead(MaxCmds + 1)

NextRead ==
    \/ Poll
    \/ Tick
    \/ RestStartReadAgain
    \/ AbandonReinit

InitRead == InitRates({250})

SpecRead == InitRead /\ [][NextRead]_vars

(***************************************************************************)
(* SpecInit: onewire_init called on a structure of any contents.           *)
(***************************************************************************)
InitAny ==
    /\ ow \in [state : OneWireState, rx_byte : DataBytes, tx_byte : DataBytes,
               bit_index : 0..7, timestamp : {0, 5}, flag_reg : 0..31]
    /\ sampled_bus_bit = GPIO_PIN_SET
    /\ tick_rate = 250
    /\ now = 5
    /\ bus = GPIO_PIN_SET
    /\ call = "supply_state"
    /\ pre = ow
    /\ pre_wait = FALSE
    /\ acts = <<>>
    /\ polled = FALSE
    /\ late = 0
    /\ lows = 0
    /\ cmds = 0
    /\ op = NoOp
    /\ pulse = [at |-> 0, a |-> FALSE, c |-> FALSE]
    /\ win_low = FALSE
    /\ log = <<>>
    /\ other = [ow |-> onewire_init_value, bus |-> GPIO_PIN_SET, polls |-> 0]
    /\ twin = [ow |-> ow, sampled |-> GPIO_PIN_SET, same |-> TRUE]

NextInit == Reinit(1)

SpecInit == InitAny /\ [][NextInit]_vars

(***************************************************************************)
(* SpecTwo: two engine instances, each on a bus line of its own, polled by *)
(* the same task in any interleaving; each reads one byte.                 *)
(***************************************************************************)
IdleStartRead == ow.state = "IDLE" /\ StartRead(1)

\* The caller starts a byte read on the second instance.
OtherStartRead ==
    /\ other.ow.state = "IDLE"
    /\ get_flag(other.ow, FLAG_BYTE_RECEIVED) = 0
    /\ other' = [other EXCEPT !.ow.state = "READ_INIT"]
    /\ UNCHANGED <<ow, sampled_bus_bit, tick_rate, now, bus, call, pre, pre_wait,
                   acts, polled, late, lows, cmds, op, pulse, win_low, log, twin>>

\* One onewire_process call on the second instance while its read is in
\* progress; dev is what the device on its line puts on it.
OtherProcess(dev) ==
    LET line == read_pin(other.bus, dev)
        r == onewire_process(other.ow, sampled_bus_bit, tick_rate, now, line)
        sampledLow == Has(r.acts, "sample") /\ line = GPIO_PIN_RESET
    IN  /\ other.ow.state \in ReadStates
        /\ other.polls < MaxOtherPolls
        /\ dev = GPIO_PIN_RESET => lows < MaxLows
        /\ lows' = IF sampledLow THEN lows + 1 ELSE lows
        /\ other' = [ow |-> r.ow, bus |-> BusAfter(other.bus, r.acts),
                     polls |-> other.polls + 1]
        /\ sampled_bus_bit' = r.sampled
        /\ twin' = [twin EXCEPT !.sampled =
                        onewire_process(other.ow, @, tick_rate, now, line).sampled]
        /\ UNCHANGED <<ow, tick_rate, now, bus, call, pre, pre_wait, acts, polled,
                       late, cmds, op, pulse, win_low, log>>

OtherPoll == \E dev \in {GPIO_PIN_RESET, GPIO_PIN_SET} : OtherProcess(dev)

\* Either instance has an operation in progress and neither has anything to
\* do before the next tick: this one was polled to no effect or is at rest,
\* the second one waits in a timed state, is at rest or is polled no more.
BothBlocked ==
    /\ polled \/ AtRest
    /\ \/ Waiting(other.ow, tick_rate, now)
       \/ other.ow.state \notin ReadStates
       \/ other.polls >= MaxOtherPolls
    /\ ~AtRest \/ (other.ow.state \in ReadStates /\ other.polls < MaxOtherPolls)

\* The tick interrupt of the task that polls both instances.
TickTwo ==
    /\ BothBlocked
    /\ now' = (now + 1) % TickModulus
    /\ polled' = FALSE
    /\ UNCHANGED <<ow, sampled_bus_bit, tick_rate, bus, call, pre, pre_wait,
                   acts, late, lows, cmds, op, pulse, win_low, log, other, twin>>

NextTwo ==
    \/ Poll
    \/ TickTwo
    \/ IdleStartRead
    \/ OtherStartRead
    \/ OtherPoll

InitTwo == InitRates({250})

SpecTwo == InitTwo /\ [][NextTwo]_vars

(***************************************************************************)
(* SpecBusy: onewire_write_byte called at any moment, also while a byte    *)
(* write or a byte read is in progress.                                    *)
(***************************************************************************)
\* The bytes written at any moment: one with set and clear bits alternating.
BusyBytes == {165}

AnyWriteByte == \E data \in BusyBytes : WriteByte(data, MaxCmds)

NextBusy ==
    \/ Poll
    \/ Tick
    \/ AnyWriteByte
    \/ RestStartRead

InitBusy == InitRates({250})

SpecBusy == InitBusy /\ [][NextBusy]_vars

(***************************************************************************)
(* SpecByte: one byte operation, a write of any value or a read, on an     *)
(* idle engine.  The task keeps polling and the tick counter keeps running.*)
(***************************************************************************)
NextByte ==
    \/ Poll
    \/ TickFree
    \/ IdleWriteByte
    \/ IdleStartRead

InitByte == InitRates(TickRates)

SpecByte ==
    InitByte /\ [][NextByte]_vars /\ WF_vars(Poll) /\ WF_vars(TickFree)

(***************************************************************************)
(* Properties.                                                             *)
(***************************************************************************)
Flag(o, flag_bit) == get_flag(o, flag_bit) # 0

WriteDoneStates == {"WRITE_HIGH_DONE", "WRITE_LOW_DONE"}

\* Slot i of the log carries bit i-1 of byte v as a write slot.
SlotCarries(i, v) ==
    /\ log[i].kind = "w"
    /\ BitAt(v, i - 1) = 1 => log[i].one
    /\ BitAt(v, i - 1) = 0 => log[i].zero

\* C1: a byte written on an idle engine goes out as exactly 8 write slots,
\* LSB first: slot i is a write-1 slot (low for at least A, then released for
\* at least B) when bit i of the byte is set and a write-0 slot (low for at
\* least C, released for at least D) when it is clear.
C1_WriteByteSlots ==
    op.kind = "write" =>
        /\ Len(log) <= 8
        /\ \A i \in 1..Len(log) : SlotCarries(i, op.data)
        /\ ow.state \in WriteHighStates \cup WriteLowStates => Len(log) = ow.bit_index
        /\ ow.state \in {"IDLE", "ERROR"} => Len(log) = 8

C1_Witness ==
    /\ op.kind = "write"
    /\ op.data = 165
    /\ ow.state = "IDLE"
    /\ Len(log) = 8
    /\ late > 0

\* C2: onewire_process on an IDLE engine changes nothing: the state stays
\* IDLE, no flag changes and no bus primitive is executed.
C2_IdleProcessNoOp ==
    (call = "process" /\ pre.state = "IDLE") =>
        /\ ow.state = "IDLE"
        /\ ow.flag_reg = pre.flag_reg
        /\ acts = <<>>

\* C3: in a reset sequence, once a poll of the sample window has read the pin
\* low the sequence goes on to RESET_DONE with presence-detected set, and a
\* sequence that ends without a low sample ends with presence-detected clear.
C3_PresenceLatched ==
    op.kind = "reset" =>
        /\ win_low => /\ ow.state \in {"RESET_SAMPLE_BUS", "RESET_DONE"}
                      /\ Flag(ow, FLAG_PRESENCE_DETECTED)
        /\ ow.state = "RESET_DONE" => (Flag(ow, FLAG_PRESENCE_DETECTED) <=> win_low)

\* C4: every reset sequence started in RESET_INIT and polled with an advancing
\* clock eventually reaches RESET_DONE.
C4_ResetReachesDone ==
    (ow.state = "RESET_INIT") ~> (ow.state = "RESET_DONE")

\* C5: the step from RESET_SAMPLE_BUS to RESET_DONE sets the error flag if and
\* only if presence-detected is clear.
C5_ErrorPolarity ==
    (/\ call = "process"
     /\ pre.state = "RESET_SAMPLE_BUS"
     /\ ow.state = "RESET_DONE"
     /\ ~Flag(pre, FLAG_ERROR)) =>
        (Flag(ow, FLAG_ERROR) <=> ~Flag(ow, FLAG_PRESENCE_DETECTED))

\* C6: the step that ends a read sample window writes 0 at bit_index when a
\* poll of the window read the pin low and 1 when none did, and leaves the
\* other seven bits of rx_byte alone.
C6_ReadBitFromWindow ==
    (call = "process" /\ pre.state = "READ_SAMPLE_BUS" /\ ow.state = "READ_DONE") =>
        /\ BitAt(ow.rx_byte, pre.bit_index) = (IF win_low THEN 0 ELSE 1)
        /\ \A k \in 0..7 : k # pre.bit_index =>
               BitAt(ow.rx_byte, k) = BitAt(pre.rx_byte, k)

\* The byte whose bit k is the bit slot k+1 of the log recorded.
RECURSIVE LogByte(_)
LogByte(n) ==
    IF n = 0 THEN 0
    ELSE LogByte(n - 1) + (IF log[n].one THEN 2 ^ (n - 1) ELSE 0)

\* C7: a byte read started in READ_INIT with bit_index 0 takes exactly eight
\* bit-read slots; the call that completes the eighth sets byte-received,
\* leaves bit_index 0 and state IDLE, and rx_byte holds the bit recorded in
\* slot k at bit position k, whatever it held before.
C7_ByteRead ==
    op.kind = "read" =>
        /\ Len(log) <= 8
        /\ \A i \in 1..Len(log) : log[i].kind = "r"
        /\ ow.state \in ReadStates =>
               /\ ow.bit_index < 8
               /\ Len(log) = ow.bit_index + (IF ow.state = "READ_DONE" THEN 1 ELSE 0)
               /\ \A k \in 0..(Len(log) - 1) :
                      BitAt(ow.rx_byte, k) = BitAt(LogByte(Len(log)), k)
        /\ (call = "process" /\ pre.state = "READ_DONE" /\ ow.state \notin ReadStates) =>
               /\ Len(log) = 8
               /\ ow.state = "IDLE"
               /\ ow.bit_index = 0
               /\ Flag(ow, FLAG_BYTE_RECEIVED)
               /\ ow.rx_byte = LogByte(8)

C7_Witness ==
    /\ op.kind = "read"
    /\ call = "process"
    /\ pre.state = "READ_DONE"
    /\ ow.state = "IDLE"
    /\ op.data = 255
    /\ ow.rx_byte = 251

\* C8: the call that handles the DONE state of the eighth bit of a byte write
\* leaves state IDLE, bit_index 0, rx_byte 0 and byte-sent set; no earlier
\* step of the transmission sets byte-sent.
C8_WriteCompletion ==
    (call = "process" /\ pre.state \in WriteHighStates \cup WriteLowStates) =>
        IF pre.state \in WriteDoneStates /\ pre.bit_index = 7
        THEN /\ ow.state = "IDLE"
             /\ ow.bit_index = 0
             /\ ow.rx_byte = 0
             /\ Flag(ow, FLAG_BYTE_SEND)
        ELSE /\ Flag(ow, FLAG_BYTE_SEND) = Flag(pre, FLAG_BYTE_SEND)
             /\ ow.state # "IDLE"

C8_Witness ==
    /\ call = "process"
    /\ pre.state \in WriteDoneStates
    /\ pre.bit_index = 7
    /\ pre.rx_byte # 0
    /\ ~Flag(pre, FLAG_BYTE_SEND)
    /\ ow.state = "IDLE"

\* C9: a onewire_process call that finds a timed state's delay unexpired
\* neither drives nor releases the bus and leaves the state unchanged.
C9_WaitingIsIdempotent ==
    (call = "process" /\ pre_wait) =>
        /\ ow.state = pre.state
        /\ ~Drives(acts)

\* C10: onewire_process on a state value without a handler sets state ERROR and
\* the error flag and executes no bus primitive; so does every later call.
C10_UnhandledToError ==
    (call = "process" /\ pre.state \in UnhandledStates) =>
        /\ ow.state = "ERROR"
        /\ Flag(ow, FLAG_ERROR)
        /\ acts = <<>>

C10_Witness ==
    /\ call = "process"
    /\ pre.state = "ERROR"
    /\ op.kind = "supplied"
    /\ ow.state = "ERROR"

\* C11: once the state is ERROR, onewire_process and onewire_write_byte leave
\* it ERROR.
C11_ErrorIsTerminal ==
    (call \in {"process", "write_byte"} /\ pre.state = "ERROR") =>
        ow.state = "ERROR"

\* The states that the statements under the case label of s assign
\* (oneWire.c:223-332).
CaseAssigns(s) ==
    CASE s = "RESET_INIT" -> {"RESET_DRIVE_BUS_LOW"}
      [] s = "RESET_DRIVE_BUS_LOW" -> {"RESET_RELEASE_BUS"}
      [] s = "RESET_RELEASE_BUS" -> {"RESET_SAMPLE_BUS"}
      [] s = "RESET_SAMPLE_BUS" -> {"RESET_DONE"}
      [] s = "WRITE_HIGH_INIT" -> {"WRITE_HIGH_DRIVE_BUS_LOW"}
      [] s = "WRITE_HIGH_DRIVE_BUS_LOW" -> {"WRITE_HIGH_RELEASE_BUS"}
      [] s = "WRITE_HIGH_RELEASE_BUS" -> {"WRITE_HIGH_DONE"}
      [] s = "WRITE_LOW_INIT" -> {"WRITE_LOW_DRIVE_BUS_LOW"}
      [] s = "WRITE_LOW_DRIVE_BUS_LOW" -> {"WRITE_LOW_RELEASE_BUS"}
      [] s = "WRITE_LOW_RELEASE_BUS" -> {"WRITE_LOW_DONE"}
      [] s \in WriteDoneStates -> {"IDLE", "WRITE_HIGH_INIT", "WRITE_LOW_INIT"}
      [] s = "READ_INIT" -> {"READ_DRIVE_BUS_LOW"}
      [] s = "READ_DRIVE_BUS_LOW" -> {"READ_RELEASE_BUS"}
      [] s = "READ_RELEASE_BUS" -> {"READ_SAMPLE_BUS"}
      [] s = "READ_SAMPLE_BUS" -> {"READ_DONE"}
      [] s = "READ_DONE" -> {"IDLE", "READ_INIT"}
      [] OTHER -> {"ERROR"}

\* The bus primitives that the statements under the case label of s call.
CasePrimitives(s) ==
    CASE s \in {"RESET_INIT", "WRITE_HIGH_INIT", "WRITE_LOW_INIT", "READ_INIT"} ->
           {"low"}
      [] s \in {"RESET_DRIVE_BUS_LOW", "WRITE_HIGH_DRIVE_BUS_LOW",
                "WRITE_LOW_DRIVE_BUS_LOW", "READ_DRIVE_BUS_LOW"} -> {"high"}
      [] s \in {"RESET_SAMPLE_BUS", "READ_SAMPLE_BUS"} -> {"sample"}
      [] OTHER -> {}

\* C12: a onewire_process call leaves the state as it found it or at a state
\* that the case of the state it found assigns, and executes only bus
\* primitives of that case.
C12_OneTransitionPerCall ==
    call = "process" =>
        /\ ow.state = pre.state \/ ow.state \in CaseAssigns(pre.state)
        /\ \A i \in 1..Len(acts) : acts[i] \in CasePrimitives(pre.state)

\* C13: after onewire_init, whatever the structure held, the state is IDLE,
\* rx_byte, tx_byte and bit_index are 0 and all five status flags are clear.
C13_InitResets ==
    call = "init" =>
        /\ ow.state = "IDLE"
        /\ ow.rx_byte = 0
        /\ ow.tx_byte = 0
        /\ ow.bit_index = 0
        /\ \A f \in {FLAG_ERROR, FLAG_PRESENCE_DETECTED, FLAG_BYTE_RECEIVED,
                      FLAG_BYTE_SEND, FLAG_IS_SLAVE} : ~Flag(ow, f)

C13_Witness ==
    /\ call = "init"
    /\ cmds = 1
    /\ pre.state = "READ_SAMPLE_BUS"
    /\ pre.flag_reg = 31
    /\ pre.rx_byte = 255
    /\ pre.tx_byte = 165
    /\ pre.bit_index = 7

\* C14: with a second instance polled on another line, every read slot of this
\* instance records 0 when a poll of its own sample window read its pin low
\* and 1 when none did.
C14_InstancesIndependent ==
    \A i \in 1..Len(log) :
        log[i].kind = "r" => (log[i].one <=> ~log[i].zero)

DriveLowStates == {"RESET_DRIVE_BUS_LOW", "WRITE_HIGH_DRIVE_BUS_LOW",
                   "WRITE_LOW_DRIVE_BUS_LOW", "READ_DRIVE_BUS_LOW"}
ReleaseStates == {"RESET_RELEASE_BUS", "WRITE_HIGH_RELEASE_BUS",
                  "WRITE_LOW_RELEASE_BUS", "READ_RELEASE_BUS"}

\* The states that follow s in the sequence of its family.
FamilySuccessors(s) ==
    CASE s = "RESET_INIT" -> {"RESET_DRIVE_BUS_LOW"}
      [] s = "RESET_DRIVE_BUS_LOW" -> {"RESET_RELEASE_BUS"}
      [] s = "RESET_RELEASE_BUS" -> {"RESET_SAMPLE_BUS"}
      [] s = "RESET_SAMPLE_BUS" -> {"RESET_DONE"}
      [] s = "RESET_DONE" -> {}
      [] s = "WRITE_HIGH_INIT" -> {"WRITE_HIGH_DRIVE_BUS_LOW"}
      [] s = "WRITE_HIGH_DRIVE_BUS_LOW" -> {"WRITE_HIGH_RELEASE_BUS"}
      [] s = "WRITE_HIGH_RELEASE_BUS" -> {"WRITE_HIGH_DONE"}
      [] s = "WRITE_LOW_INIT" -> {"WRITE_LOW_DRIVE_BUS_LOW"}
      [] s = "WRITE_LOW_DRIVE_BUS_LOW" -> {"WRITE_LOW_RELEASE_BUS"}
      [] s = "WRITE_LOW_RELEASE_BUS" -> {"WRITE_LOW_DONE"}
      [] s \in WriteDoneStates -> {"WRITE_HIGH_INIT", "WRITE_LOW_INIT", "IDLE"}
      [] s = "READ_INIT" -> {"READ_DRIVE_BUS_LOW"}
      [] s = "READ_DRIVE_BUS_LOW" -> {"READ_RELEASE_BUS"}
      [] s = "READ_RELEASE_BUS" -> {"READ_SAMPLE_BUS"}
      [] s = "READ_SAMPLE_BUS" -> {"READ_DONE"}
      [] s = "READ_DONE" -> {"READ_INIT", "IDLE"}
      [] OTHER -> {}

\* The drive primitives among the bus primitives a.
DriveActs(a) == SelectSeq(a, LAMBDA x : x \in {"low", "high"})

\* The drive primitives that belong to the entry into state s.
EntryDrive(s) ==
    IF s \in DriveLowStates THEN <<"low">>
    ELSE IF s \in ReleaseStates THEN <<"high">>
    ELSE <<>>

\* C15: a onewire_process call on a state of the reset, write or read families
\* leaves the state unchanged and the bus alone, or moves to the immediate
\* successor in the family and executes that phase's bus action exactly once.
C15_StrictlySequential ==
    (/\ call = "process"
     /\ pre.state \in ResetStates \cup WriteHighStates \cup WriteLowStates \cup ReadStates
     /\ pre.state # "RESET_DONE") =>
        \/ ow.state = pre.state /\ DriveActs(acts) = <<>>
        \/ /\ ow.state \in FamilySuccessors(pre.state)
           /\ DriveActs(acts) = EntryDrive(ow.state)

\* C16: a onewire_process call on RESET_DONE does not move the engine to ERROR
\* and does not change the error flag.
C16_ResetDoneStays ==
    (call = "process" /\ pre.state = "RESET_DONE") =>
        /\ ow.state # "ERROR"
        /\ Flag(ow, FLAG_ERROR) = Flag(pre, FLAG_ERROR)

\* C17: between calls bit_index is in 0..7, and it is 0 whenever the state is
\* IDLE, also when onewire_write_byte is called while a byte is in progress.
C17_BitIndexRange ==
    /\ ow.bit_index \in 0..7
    /\ ow.state = "IDLE" => ow.bit_index = 0

C17_Witness ==
    /\ op.kind = "write_busy"
    /\ pre.bit_index > 0
    /\ pre.state \in WriteHighStates \cup WriteLowStates \cup ReadStates
    /\ call = "write_byte"
    /\ ow.bit_index = 0

\* C18: onewire_process and onewire_write_byte never clear the error,
\* byte-received or byte-sent flag, and presence-detected is cleared only by
\* the step from RESET_RELEASE_BUS to RESET_SAMPLE_BUS.
C18_FlagsLatched ==
    call # "init" =>
        /\ \A f \in {FLAG_ERROR, FLAG_BYTE_RECEIVED, FLAG_BYTE_SEND} :
               Flag(pre, f) => Flag(ow, f)
        /\ (Flag(pre, FLAG_PRESENCE_DETECTED) /\ ~Flag(ow, FLAG_PRESENCE_DETECTED)) =>
               /\ call = "process"
               /\ pre.state = "RESET_RELEASE_BUS"
               /\ ow.state = "RESET_SAMPLE_BUS"

C18_Witness ==
    /\ call = "process"
    /\ Flag(pre, FLAG_PRESENCE_DETECTED)
    /\ ~Flag(ow, FLAG_PRESENCE_DETECTED)
    /\ Flag(ow, FLAG_BYTE_SEND)
    /\ Flag(ow, FLAG_ERROR)

\* C19: under fair polling with an advancing clock a byte write started on an
\* idle engine reaches IDLE with byte-sent set, a byte read started with
\* bit_index 0 reaches IDLE with byte-received set, and neither is in ERROR
\* before its flag is set.
C19_ByteOpsTerminate ==
    /\ [](op.kind = "write" /\ ~Flag(ow, FLAG_BYTE_SEND) => ow.state # "ERROR")
    /\ [](op.kind = "read" /\ ~Flag(ow, FLAG_BYTE_RECEIVED) => ow.state # "ERROR")
    /\ (op.kind = "write" /\ call = "write_byte")
           ~> (ow.state = "IDLE" /\ Flag(ow, FLAG_BYTE_SEND))
    /\ (op.kind = "read" /\ call = "start_read")
           ~> (ow.state = "IDLE" /\ Flag(ow, FLAG_BYTE_RECEIVED))

C19_Witness ==
    /\ op.kind = "read"
    /\ call = "process"
    /\ pre.state = "READ_DONE"
    /\ ow.state = "IDLE"
    /\ Flag(ow, FLAG_BYTE_RECEIVED)
    /\ now > 0

\* C20: the master holds the bus low exactly while the state is one of the
\* four DRIVE_BUS_LOW states; in every other state it has released the bus.
C20_LowOnlyInDriveLow ==
    bus = GPIO_PIN_RESET <=> ow.state \in DriveLowStates

C20_Witness ==
    /\ op.kind = "write"
    /\ op.data = 165
    /\ ow.state = "WRITE_LOW_DRIVE_BUS_LOW"
    /\ ow.bit_index = 1
    /\ bus = GPIO_PIN_RESET

\* C21: while byte-received is set, a onewire_process or onewire_write_byte
\* call outside a byte read leaves rx_byte as the last completed read
\* assembled it.
C21_ReceivedByteKept ==
    (/\ call \in {"process", "write_byte"}
     /\ Flag(pre, FLAG_BYTE_RECEIVED)
     /\ pre.state \notin ReadStates) =>
        ow.rx_byte = pre.rx_byte

(***************************************************************************)
(* SpecExpiry: onewire_process called on a timed phase that was entered    *)
(* near the wrap of the tick counter.                                      *)
(***************************************************************************)
WrapTicks == {(TickModulus - MaxWrap + k) % TickModulus : k \in 0..(2 * MaxWrap - 1)}

InitExpiry ==
    /\ tick_rate \in TickRates
    /\ \E s \in TimedStates, t \in WrapTicks, e \in 0..MaxElapsed :
          /\ ow = [state |-> s, rx_byte |-> 0, tx_byte |-> 165,
                   bit_index |-> IF s \in WriteLowStates THEN 1 ELSE 0,
                   timestamp |-> t, flag_reg |-> 0]
          /\ now = (t + e) % TickModulus
          /\ bus = IF s \in DriveLowStates THEN GPIO_PIN_RESET ELSE GPIO_PIN_SET
          /\ pulse = [at |-> t, a |-> FALSE, c |-> FALSE]
    /\ sampled_bus_bit = GPIO_PIN_SET
    /\ call = "supply_state"
    /\ pre = ow
    /\ pre_wait = FALSE
    /\ acts = <<>>
    /\ polled = FALSE
    /\ late = 0
    /\ lows = 0
    /\ cmds = 0
    /\ op = NoOp
    /\ win_low = FALSE
    /\ log = <<>>
    /\ other = [ow |-> onewire_init_value, bus |-> GPIO_PIN_SET, polls |-> 0]
    /\ twin = [ow |-> ow, sampled |-> GPIO_PIN_SET, same |-> TRUE]

NextExpiry == Poll

SpecExpiry == InitExpiry /\ [][NextExpiry]_vars

\* C22: a onewire_process call on a timed phase entered at tick t treats the
\* phase as expired exactly when at least its delay in ticks has elapsed
\* since t on the free-running counter, also across the counter's wrap.
\* (Under SpecExpiry the counter stands still between the calls, so now is the
\* tick the call read.)
C22_ExpiryExact ==
    (call = "process" /\ pre.state \in TimedStates) =>
        (~pre_wait <=>
            TicksSince(pre.timestamp, now) >= DelayTicks(pre.state, tick_rate))

\* C23: after onewire_init the engine's states, bus actions and rx_byte are
\* those of an engine that was never used before that onewire_init and got
\* the same calls, clock values and pin samples after it.
C23_ReinitForgetsHistory ==
    /\ twin.same
    /\ twin.ow = ow
====
